---- MODULE Spec2Model ----
(***************************************************************************)
(* KERN front end: the lexer (src/kern-lexer/test_lexer.py) and the        *)
(* recursive-descent parser (src/kern-parser/test_parser.py).              *)
(*                                                                         *)
(* Source text is a sequence of one-character strings.  The lexer is a     *)
(* record with the fields of class Lexer; the parser is the fields of      *)
(* class Parser plus an explicit call stack of its parse_* methods.        *)
(***************************************************************************)
EXTENDS Integers, Sequences, FiniteSets, TLC

VARIABLES
    lexer,          \* the Lexer object: input, position, read_position, ch, line, column
    tokens,         \* Lexer.tokenize_all: the local list `tokens`
    current_token,  \* Parser.current_token
    errors,         \* Parser.errors
    definitions,    \* Parser.parse_program: the local list `definitions`
    stack,          \* the active parse_* calls, innermost last
    retval,         \* the value the last finished parse_* call returned
    status,         \* "new", "running", "returned" or "raised"
    exc             \* the exception that escaped to the caller, if any

vars == <<lexer, tokens, current_token, errors, definitions, stack, retval, status, exc>>

----------------------------------------------------------------------------
(* Bounds of the model *)

\* longest source text, in characters, the lexer specification enumerates
MaxLen == 3

\* most catalogue fragments a source text of the parser specification is made of
MaxDefs == 2

----------------------------------------------------------------------------
(* Characters *)

\* '\0', the value of Lexer.ch at and beyond the end of the input
NUL == "\\0"

\* a character str.isdigit() accepts and int() rejects (SUPERSCRIPT TWO, U+00B2)
SuperscriptTwo == "^2"

DecimalDigits == {"0", "1", "2", "3", "4", "5", "6", "7", "8", "9"}

Letters == {"a", "b", "c", "d", "e", "f", "g", "h", "i", "j", "k", "l", "m",
            "n", "o", "p", "q", "r", "s", "t", "u", "v", "w", "x", "y", "z",
            "A", "B", "C", "D", "E", "F", "G", "H", "I", "J", "K", "L", "M",
            "N", "O", "P", "Q", "R", "S", "T", "U", "V", "W", "X", "Y", "Z"}

\* str.isspace()
isspace(c) == c \in {" ", "\n", "\t", "\r"}

\* str.isdigit(): the decimal digits and the digit-like characters such as U+00B2
isdigit(c) == c \in DecimalDigits \cup {SuperscriptTwo}

\* str.isalpha()
isalpha(c) == c \in Letters

is_letter(c) == isalpha(c) \/ c = "_"

\* Python's s[a:b] on a sequence, 0-based, clipped to the sequence
Slice(s, a, b) == SubSeq(s, a + 1, IF b > Len(s) THEN Len(s) ELSE b)

----------------------------------------------------------------------------
(* Tokens *)

NoValue == [kind |-> "none", text |-> <<>>, num |-> 0]
TextValue(t) == [kind |-> "text", text |-> t, num |-> 0]
IntValue(n) == [kind |-> "int", text |-> <<>>, num |-> n]

Token(token_type, value, line, column, position) ==
    [token_type |-> token_type, value |-> value,
     line |-> line, column |-> column, position |-> position]

\* spelling of the twelve keywords
KwEntity == <<"e", "n", "t", "i", "t", "y">>
KwRule == <<"r", "u", "l", "e">>
KwFlow == <<"f", "l", "o", "w">>
KwConstraint == <<"c", "o", "n", "s", "t", "r", "a", "i", "n", "t">>
KwIf == <<"i", "f">>
KwThen == <<"t", "h", "e", "n">>
KwElse == <<"e", "l", "s", "e">>
KwLoop == <<"l", "o", "o", "p">>
KwBreak == <<"b", "r", "e", "a", "k">>
KwHalt == <<"h", "a", "l", "t">>
KwAnd == <<"a", "n", "d">>
KwOr == <<"o", "r">>

\* text begins with the spelling kw
HasPrefix(text, kw) == Len(text) >= Len(kw) /\ SubSeq(text, 1, Len(kw)) = kw

\* the keyword lookup as it would be if it matched a keyword at the start of the
\* scanned text instead of the whole text
LookupKeywordPrefix(identifier) ==
    CASE HasPrefix(identifier, KwEntity) -> "ENTITY"
      [] HasPrefix(identifier, KwRule) -> "RULE"
      [] HasPrefix(identifier, KwFlow) -> "FLOW"
      [] HasPrefix(identifier, KwConstraint) -> "CONSTRAINT"
      [] HasPrefix(identifier, KwIf) -> "IF"
      [] HasPrefix(identifier, KwThen) -> "THEN"
      [] HasPrefix(identifier, KwElse) -> "ELSE"
      [] HasPrefix(identifier, KwLoop) -> "LOOP"
      [] HasPrefix(identifier, KwBreak) -> "BREAK"
      [] HasPrefix(identifier, KwHalt) -> "HALT"
      [] HasPrefix(identifier, KwAnd) -> "AND"
      [] HasPrefix(identifier, KwOr) -> "OR"
      [] OTHER -> "IDENTIFIER"

_lookup_identifier(identifier) ==
    CASE identifier = KwEntity -> "ENTITY"
      [] identifier = KwRule -> "RULE"
      [] identifier = KwFlow -> "FLOW"
      [] identifier = KwConstraint -> "CONSTRAINT"
      [] identifier = KwIf -> "IF"
      [] identifier = KwThen -> "THEN"
      [] identifier = KwElse -> "ELSE"
      [] identifier = KwLoop -> "LOOP"
      [] identifier = KwBreak -> "BREAK"
      [] identifier = KwHalt -> "HALT"
      [] identifier = KwAnd -> "AND"
      [] identifier = KwOr -> "OR"
      [] OTHER -> "IDENTIFIER"

----------------------------------------------------------------------------
(* Lexer *)

\* _read_char once the character c under read_position is known
ReadCharAs(lx, c) ==
    [lx EXCEPT !.ch = c,
               !.position = lx.read_position,
               !.read_position = lx.read_position + 1,
               !.line = IF c = "\n" THEN lx.line + 1 ELSE lx.line,
               !.column = IF c = "\n" THEN 0 ELSE lx.column + 1]

_peek_char(lx) ==
    IF lx.read_position >= Len(lx.input) THEN NUL ELSE lx.input[lx.read_position + 1]

_read_char(lx) == ReadCharAs(lx, _peek_char(lx))

\* Lexer.__init__
NewLexer(input_text) ==
    _read_char([input |-> input_text, position |-> 0, read_position |-> 0,
                ch |-> NUL, line |-> 1, column |-> 0])

\* _skip_whitespace as it would be if it skipped blanks and tabs only, not newlines
RECURSIVE SkipBlanksOnly(_)
SkipBlanksOnly(lx) ==
    IF lx.ch \in {" ", "\t"}
    THEN SkipBlanksOnly(_read_char([lx EXCEPT !.column = lx.column + 1]))
    ELSE lx

RECURSIVE _skip_whitespace(_)
_skip_whitespace(lx) ==
    IF isspace(lx.ch)
    THEN _skip_whitespace(_read_char(
             IF lx.ch = "\n"
             THEN [lx EXCEPT !.line = lx.line + 1, !.column = 0]
             ELSE [lx EXCEPT !.column = lx.column + 1]))
    ELSE lx

\* the loop of _read_identifier
RECURSIVE ReadIdentifierLoop(_)
ReadIdentifierLoop(lx) ==
    IF is_letter(lx.ch) \/ isdigit(lx.ch) THEN ReadIdentifierLoop(_read_char(lx)) ELSE lx

\* the return statement of _read_identifier and of _read_number: the text from the
\* position the scan started at to the position it ended at
Scanned(lx, end) == [lexer |-> end, text |-> Slice(lx.input, lx.position, end.position)]

_read_identifier(lx) == Scanned(lx, ReadIdentifierLoop(lx))

\* the loop of _read_number
RECURSIVE ReadNumberLoop(_)
ReadNumberLoop(lx) ==
    IF isdigit(lx.ch) THEN ReadNumberLoop(_read_char(lx)) ELSE lx

DigitValue(c) ==
    CASE c = "0" -> 0 [] c = "1" -> 1 [] c = "2" -> 2 [] c = "3" -> 3 [] c = "4" -> 4
      [] c = "5" -> 5 [] c = "6" -> 6 [] c = "7" -> 7 [] c = "8" -> 8 [] c = "9" -> 9

\* int(text) accepts exactly the texts made of decimal digits (text is never empty here)
IntAccepts(text) == \A i \in 1..Len(text) : text[i] \in DecimalDigits

RECURSIVE IntOf(_)
IntOf(text) ==
    IF text = <<>> THEN 0
    ELSE 10 * IntOf(SubSeq(text, 1, Len(text) - 1)) + DigitValue(text[Len(text)])

\* len(str(number)) for number >= 0
RECURSIVE StrLen(_)
StrLen(n) == IF n < 10 THEN 1 ELSE 1 + StrLen(n \div 10)

\* int(...) of _read_number: raised is TRUE when int() raises ValueError
IntResult(r) ==
    [lexer |-> r.lexer,
     raised |-> ~IntAccepts(r.text),
     number |-> IF IntAccepts(r.text) THEN IntOf(r.text) ELSE 0]

\* the cursor has moved past the digits even when int() raises
_read_number(lx) == IntResult(Scanned(lx, ReadNumberLoop(lx)))

\* a token built from the lexer as it stands: line, column less dcol, position less dcol
TokenAt(lx, token_type, value, dcol) ==
    [lexer |-> lx, raised |-> FALSE,
     token |-> Token(token_type, value, lx.line, lx.column - dcol, lx.position - dcol)]

\* the operator branch as it would be without the look at the next character: every
\* '=', '!', '>' and '<' is a token of its own
OperatorTokenWithoutLookahead(lx, two, one) ==
    IF one = "ILLEGAL"
    THEN TokenAt(_read_char(lx), "ILLEGAL", TextValue(<<lx.ch>>), 0)
    ELSE TokenAt(lx, one, TextValue(<<lx.ch>>), 0)

\* the branch of next_token for '=', '!', '>' and '<'
OperatorToken(lx, two, one) ==
    IF _peek_char(lx) = "="
    THEN TokenAt(_read_char(lx), two, TextValue(<<lx.ch, "=">>), 1)
    ELSE IF one = "ILLEGAL"
    THEN TokenAt(_read_char(lx), "ILLEGAL", TextValue(<<lx.ch>>), 0)
    ELSE TokenAt(lx, one, TextValue(<<lx.ch>>), 0)

\* the identifier branch as it would be if the length of the identifier were taken
\* off the column and the position twice
IdentifierTokenOffsetTwice(r) ==
    TokenAt(r.lexer, _lookup_identifier(r.text), TextValue(r.text), 2 * Len(r.text))

\* the identifier branch of next_token after _read_identifier
IdentifierToken(r) ==
    TokenAt(r.lexer, _lookup_identifier(r.text), TextValue(r.text), Len(r.text))

\* the digit branch of next_token after _read_number
NumberToken(r) ==
    [TokenAt(r.lexer, "NUMBER", IntValue(r.number), StrLen(r.number))
        EXCEPT !.raised = r.raised]

SymbolType(c) ==
    CASE c = "{" -> "LEFT_BRACE"
      [] c = "}" -> "RIGHT_BRACE"
      [] c = "(" -> "LEFT_PAREN"
      [] c = ")" -> "RIGHT_PAREN"
      [] c = "," -> "COMMA"
      [] c = "." -> "DOT"
      [] c = ":" -> "COLON"

\* next_token up to, and without, its last statement self._read_char()
ScanToken(lx) ==
    CASE lx.ch = "=" -> OperatorToken(lx, "EQUAL", "ASSIGNMENT")
      [] lx.ch = "!" -> OperatorToken(lx, "NOT_EQUAL", "ILLEGAL")
      [] lx.ch = ">" -> OperatorToken(lx, "GREATER_EQUAL", "GREATER")
      [] lx.ch = "<" -> OperatorToken(lx, "LESS_EQUAL", "LESS")
      [] lx.ch \in {"{", "}", "(", ")", ",", ".", ":"} ->
            TokenAt(lx, SymbolType(lx.ch), TextValue(<<lx.ch>>), 0)
      [] lx.ch = NUL -> TokenAt(lx, "EOF", NoValue, 0)
      [] is_letter(lx.ch) -> IdentifierToken(_read_identifier(lx))
      [] lx.ch \in {"\"", "'"} -> TokenAt(_read_char(lx), "ILLEGAL", TextValue(<<lx.ch>>), 0)
      [] isdigit(lx.ch) -> NumberToken(_read_number(lx))
      [] OTHER -> TokenAt(_read_char(lx), "ILLEGAL", TextValue(<<lx.ch>>), 0)

\* the last statement of next_token, self._read_char(), which a raise never reaches
FinishToken(r) == IF r.raised THEN r ELSE [r EXCEPT !.lexer = _read_char(r.lexer)]

\* Lexer.next_token: the lexer after the call, the token returned, and whether the
\* call raised ValueError instead of returning
next_token(lx) == FinishToken(ScanToken(_skip_whitespace(lx)))

----------------------------------------------------------------------------
(* Lexer.tokenize_all as a process: one call of next_token per step *)

NoToken == Token("NONE", NoValue, 0, 0, 0)
NoException == [type |-> "none", from |-> "none"]
None == [kind |-> "None"]

\* the characters the lexer specification builds its source texts from
Alphabet == {"o", "r", "0", "7", SuperscriptTwo, " ", "\n", "=", "!", ">", "<", "{"}

\* the input texts of test_lexer: the operators, the keywords, the illegal character
OperatorsText ==
    <<"=", "=", " ", "!", "=", " ", ">", " ", "<", " ", ">", "=", " ", "<",
      "=">>

KeywordsText ==
    <<"e", "n", "t", "i", "t", "y", " ", "r", "u", "l", "e", " ", "f", "l",
      "o", "w", " ", "c", "o", "n", "s", "t", "r", "a", "i", "n", "t", " ",
      "i", "f", " ", "t", "h", "e", "n", " ", "e", "l", "s", "e", " ", "l",
      "o", "o", "p", " ", "b", "r", "e", "a", "k", " ", "h", "a", "l", "t",
      " ", "a", "n", "d", " ", "o", "r">>

ErrorText ==
    <<"e", "n", "t", "i", "t", "y", " ", "t", "e", "s", "t", " ", "!", " ",
      "i", "n", "v", "a", "l", "i", "d">>

LexerTexts == {OperatorsText, KeywordsText, ErrorText}

\* every text of at most MaxLen characters of the alphabet, and the texts of test_lexer
LexerInputs == UNION {[1..n -> Alphabet] : n \in 0..MaxLen} \cup LexerTexts

InitLexer ==
    /\ lexer \in {NewLexer(s) : s \in LexerInputs}
    /\ tokens = <<>>
    /\ current_token = NoToken
    /\ errors = <<>>
    /\ definitions = <<>>
    /\ stack = <<>>
    /\ retval = None
    /\ status = "running"
    /\ exc = NoException

\* the loop body of tokenize_all after next_token has returned r.token
AppendToken(r) ==
    /\ ~r.raised
    /\ lexer' = r.lexer
    /\ tokens' = Append(tokens, r.token)
    /\ status' = IF r.token.token_type = "EOF" THEN "returned" ELSE "running"
    /\ UNCHANGED <<current_token, errors, definitions, stack, retval, exc>>

\* one iteration of the loop of tokenize_all whose next_token call returns
TokenizeAllStep ==
    /\ status = "running"
    /\ stack = <<>>
    /\ AppendToken(next_token(lexer))

\* tokenize_all left by the ValueError of next_token
PropagateLexerError(r) ==
    /\ r.raised
    /\ lexer' = r.lexer
    /\ status' = "raised"
    /\ exc' = [type |-> "ValueError", from |-> "tokenize_all"]
    /\ UNCHANGED <<tokens, current_token, errors, definitions, stack, retval>>

\* one iteration of the loop of tokenize_all whose next_token call raises
TokenizeAllRaise ==
    /\ status = "running"
    /\ stack = <<>>
    /\ PropagateLexerError(next_token(lexer))

NextLexer == TokenizeAllStep \/ TokenizeAllRaise

SpecLexer == InitLexer /\ [][NextLexer]_vars

----------------------------------------------------------------------------
(* AST nodes and diagnostics of the parser *)

Program(defs) == [kind |-> "Program", definitions |-> defs]
EntityDef(name, fields) == [kind |-> "EntityDef", name |-> name, fields |-> fields]
FieldDef(name) == [kind |-> "FieldDef", name |-> name]
RuleDef(name, condition, actions) ==
    [kind |-> "RuleDef", name |-> name, condition |-> condition, actions |-> actions]
FlowDef(name, actions) == [kind |-> "FlowDef", name |-> name, actions |-> actions]
ConstraintDef(name, condition) ==
    [kind |-> "ConstraintDef", name |-> name, condition |-> condition]
Expression == [kind |-> "Expression"]
Term == [kind |-> "Term"]
Action == [kind |-> "Action"]
Predicate(name, arguments) == [kind |-> "Predicate", name |-> name, arguments |-> arguments]

\* a Python list handed from one parse_* method to its caller
List(items) == [kind |-> "list", items |-> items]

\* a local variable not yet assigned
Unbound == [kind |-> "unbound"]

\* Python's truth test `if x:` on the value of a parse_* call (an object or None)
Truthy(v) == v.kind # "None"

ParseError(text, expected, got, tok) ==
    [message |-> [text |-> text, expected |-> expected, got |-> got],
     line |-> tok.line, column |-> tok.column, position |-> tok.position]

\* `raise error` of expect_token: ParseError does not derive from BaseException, so
\* the raise statement raises TypeError in its place
RaiseParseError == "TypeError"

\* `except ParseError:` of parse_program: matching an exception in flight against a
\* class that does not derive from BaseException raises TypeError, whatever was in flight
ExceptParseError(in_flight) == "TypeError"

----------------------------------------------------------------------------
(* The Parser object and the leaf methods, as functions of the object *)

\* the fields of self that the methods change, and the exception in flight ("none"
\* while none is); a method applied while an exception is in flight does nothing
Self == [lexer |-> lexer, current_token |-> current_token, errors |-> errors,
         raised |-> "none"]

\* the assignment of Parser.next_token, r being what lexer.next_token() did
SetCurrentToken(p, r) ==
    IF r.raised
    THEN [p EXCEPT !.lexer = r.lexer, !.raised = "ValueError"]
    ELSE [p EXCEPT !.lexer = r.lexer, !.current_token = r.token]

Parser_next_token(p) ==
    IF p.raised # "none" THEN p ELSE SetCurrentToken(p, next_token(p.lexer))

\* expect_token as it would be if a failure also skipped the offending token
ExpectTokenSkippingOnFailure(p, token_type) ==
    IF p.raised # "none" THEN p
    ELSE IF p.current_token.token_type = token_type
    THEN Parser_next_token(p)
    ELSE [Parser_next_token(p)
            EXCEPT !.errors = Append(p.errors,
                                ParseError("Expected", token_type,
                                           p.current_token.token_type, p.current_token)),
                   !.raised = RaiseParseError]

\* expect_token as it would be if a failure replaced the list of diagnostics by the
\* new diagnostic instead of appending to it
ExpectTokenReplacingErrors(p, token_type) ==
    IF p.raised # "none" THEN p
    ELSE IF p.current_token.token_type = token_type
    THEN Parser_next_token(p)
    ELSE [p EXCEPT !.errors = <<ParseError("Expected", token_type,
                                           p.current_token.token_type, p.current_token)>>,
                   !.raised = RaiseParseError]

expect_token(p, token_type) ==
    IF p.raised # "none" THEN p
    ELSE IF p.current_token.token_type = token_type
    THEN Parser_next_token(p)
    ELSE [p EXCEPT !.errors = Append(p.errors,
                       ParseError("Expected", token_type, p.current_token.token_type,
                                  p.current_token)),
                   !.raised = RaiseParseError]

is_at_end(p) == p.current_token.token_type = "EOF"

is_current_token(p, token_type) == p.current_token.token_type = token_type

\* parse_condition and parse_expression: a placeholder node, no token consumed
parse_condition(p) == [self |-> p, node |-> Expression]

parse_field_def(p) ==
    IF is_current_token(p, "IDENTIFIER")
    THEN [self |-> Parser_next_token(p), node |-> FieldDef(p.current_token.value)]
    ELSE [self |-> p, node |-> None]

\* parse_predicate between its two expect_token calls: the one argument it reads
HasArgument(p) ==
    /\ ~is_current_token(p, "RIGHT_PAREN")
    /\ is_current_token(p, "IDENTIFIER") \/ is_current_token(p, "NUMBER")

\* one statement of a parse_* method: expect_token of a token type, the call of
\* parse_condition, or the argument of parse_predicate
Statement(p, s) ==
    CASE s = "parse_condition" -> parse_condition(p).self
      [] s = "argument" -> IF p.raised = "none" /\ HasArgument(p)
                           THEN Parser_next_token(p)
                           ELSE p
      [] OTHER -> expect_token(p, s)

\* the statements of a parse_* method, run in order
RECURSIVE Run(_, _)
Run(p, statements) ==
    IF statements = <<>> THEN p
    ELSE Run(Statement(p, Head(statements)), Tail(statements))

\* the list `arguments` of parse_predicate, p being self after '(' was expected
Arguments(p) == IF p.raised = "none" /\ HasArgument(p) THEN <<Term>> ELSE <<>>

parse_predicate(p) ==
    [self |-> Run(p, <<"IDENTIFIER", "LEFT_PAREN", "argument", "RIGHT_PAREN">>),
     node |-> Predicate(p.current_token.value,
                        Arguments(Run(p, <<"IDENTIFIER", "LEFT_PAREN">>)))]

----------------------------------------------------------------------------
(* The call stack of the parse_* methods *)

Frame(fn, pc) == [fn |-> fn, pc |-> pc, name |-> NoValue, items |-> <<>>, item |-> Unbound]

Top == stack[Len(stack)]
Callers == SubSeq(stack, 1, Len(stack) - 1)
At(fn, pc) == /\ status = "running" /\ stack # <<>> /\ Top.fn = fn /\ Top.pc = pc

\* the new state of a step of the parser: p is self after the step, stk the stack,
\* rv the value returned, defs the list of parse_program.  An exception in flight
\* unwinds to the try statement of parse_program, whose except clause raises
\* TypeError, and that leaves parse_program.
Commit(p, stk, rv, defs) ==
    /\ lexer' = p.lexer
    /\ current_token' = p.current_token
    /\ errors' = p.errors
    /\ IF p.raised = "none"
       THEN /\ stack' = stk
            /\ retval' = rv
            /\ definitions' = defs
            /\ UNCHANGED <<status, exc>>
       ELSE /\ stack' = <<>>
            /\ status' = "raised"
            /\ exc' = [type |-> ExceptParseError(p.raised), from |-> "parse_program"]
            /\ UNCHANGED <<retval, definitions>>
    /\ UNCHANGED tokens

\* call fn from the frame on top, which waits at pc for the value
Call(top, pc, fn) == Append(Append(Callers, [top EXCEPT !.pc = pc]), Frame(fn, "start"))

\* `return self.fn()`: the frame on top becomes the call of fn
TailCall(fn) == Append(Callers, Frame(fn, "start"))

----------------------------------------------------------------------------
(* Source texts of the parser specification: up to MaxDefs fragments of a    *)
(* catalogue, each a list of lexemes, written with one space between lexemes *)
(* or with no space wherever two lexemes can be told apart without one       *)

Entity2 == <<KwEntity, <<"A">>, <<"{">>, <<"x">>, <<"y">>, <<"}">>>>
Entity0 == <<KwEntity, <<"A">>, <<"{">>, <<"}">>>>
EntityNumberField == <<KwEntity, <<"A">>, <<"{">>, <<"1">>, <<"}">>>>
RuleCompare ==
    <<KwRule, <<"R">>, <<":">>, KwIf, <<"x">>, <<">">>, <<"1">>, KwThen,
      <<"f">>, <<"(">>, <<"x">>, <<")">>>>
RuleNoCondition == <<KwRule, <<"R">>, <<":">>, KwIf, KwThen, KwHalt, <<",">>, KwHalt>>
RuleNoName == <<KwRule>>
FlowHalt == <<KwFlow, <<"F">>, <<"{">>, KwHalt, <<"}">>>>
FlowEmpty == <<KwFlow, <<"F">>, <<"{">>, <<"}">>>>
FlowDanglingComma == <<KwFlow, <<"F">>, <<"{">>, KwHalt, <<",">>, <<"}">>>>
FlowAssign == <<KwFlow, <<"F">>, <<"{">>, <<"x">>, <<"=">>, <<"1">>, <<"}">>>>
FlowIfElse == <<KwFlow, <<"F">>, <<"{">>, KwIf, KwThen, KwHalt, KwElse, KwHalt, <<"}">>>>
FlowCut == <<KwFlow, <<"F">>, <<"{">>, KwHalt, <<",">>>>
FlowCall == <<KwFlow, <<"F">>, <<"{">>, <<"f">>, <<"(">>, <<"x">>, <<",">>, <<"1">>, <<")">>, <<"}">>>>
ConstraintCompare == <<KwConstraint, <<"C">>, <<":">>, <<"x">>, <<">">>, <<"1">>>>
ConstraintNoCondition == <<KwConstraint, <<"C">>, <<":">>>>
StrayIdentifier == <<<<"x">>>>
StrayBang == <<<<"!">>>>
StraySuperscript == <<<<SuperscriptTwo>>>>
BlankLine == <<<<"\n">>>>

Catalogue ==
    {Entity2, Entity0, EntityNumberField, RuleCompare, RuleNoCondition, RuleNoName,
     FlowHalt, FlowEmpty, FlowDanglingComma, FlowAssign, FlowIfElse, FlowCut, FlowCall,
     ConstraintCompare, ConstraintNoCondition, StrayIdentifier, StrayBang,
     StraySuperscript, BlankLine}

IsWordChar(c) == is_letter(c) \/ isdigit(c)

RECURSIVE Flatten(_)
Flatten(fragments) ==
    IF fragments = <<>> THEN <<>> ELSE fragments[1] \o Flatten(Tail(fragments))

RECURSIVE JoinWords(_, _)
JoinWords(words, tight) ==
    IF words = <<>> THEN <<>>
    ELSE IF Len(words) = 1 THEN words[1]
    ELSE LET u == words[1]
             v == words[2]
             sep == IF tight /\ ~(IsWordChar(u[Len(u)]) /\ IsWordChar(v[1]))
                    THEN <<>>
                    ELSE <<" ">>
         IN  u \o sep \o JoinWords(Tail(words), tight)

Source(fragments, tight) == JoinWords(Flatten(fragments), tight)

ParserInputs ==
    {Source(fs, t) : fs \in UNION {[1..n -> Catalogue] : n \in 0..MaxDefs}, t \in BOOLEAN}

----------------------------------------------------------------------------
(* Parser: construction, then parse_program one step at a time *)

InitParser ==
    /\ lexer \in {NewLexer(s) : s \in ParserInputs}
    /\ tokens = <<>>
    /\ current_token = NoToken
    /\ errors = <<>>
    /\ definitions = <<>>
    /\ stack = <<>>
    /\ retval = None
    /\ status = "new"
    /\ exc = NoException

\* Parser.__init__ (the Lexer is built already), then the call of parse_program up
\* to its loop.  The first next_token is outside any try statement.
Construct(p) ==
    /\ lexer' = p.lexer
    /\ current_token' = p.current_token
    /\ IF p.raised = "none"
       THEN /\ status' = "running"
            /\ stack' = <<Frame("parse_program", "loop")>>
            /\ exc' = exc
       ELSE /\ status' = "raised"
            /\ stack' = <<>>
            /\ exc' = [type |-> p.raised, from |-> "__init__"]
    /\ errors' = <<>>
    /\ definitions' = <<>>
    /\ UNCHANGED <<tokens, retval>>

ParserInit ==
    /\ status = "new"
    /\ Construct(Parser_next_token(Self))

\* parse_program: the loop test holds, parse_definition is called
ProgramLoop ==
    /\ At("parse_program", "loop")
    /\ ~is_at_end(Self)
    /\ Commit(Self, Call(Top, "ret", "parse_definition"), retval, definitions)

\* parse_program: the loop test fails, Program(definitions) is returned
ProgramReturn ==
    /\ At("parse_program", "loop")
    /\ is_at_end(Self)
    /\ stack' = <<>>
    /\ retval' = Program(definitions)
    /\ status' = "returned"
    /\ UNCHANGED <<lexer, tokens, current_token, errors, definitions, exc>>

\* parse_program: parse_definition has returned
ProgramAppend ==
    /\ At("parse_program", "ret")
    /\ Commit(Self, Append(Callers, [Top EXCEPT !.pc = "loop", !.item = retval]), retval,
              IF Truthy(retval) THEN Append(definitions, retval) ELSE definitions)

parse_definition ==
    /\ At("parse_definition", "start")
    /\ LET t == current_token.token_type
       IN  CASE t = "ENTITY" ->
                    Commit(Self, TailCall("parse_entity_def"), retval, definitions)
             [] t = "RULE" ->
                    Commit(Self, TailCall("parse_rule_def"), retval, definitions)
             [] t = "FLOW" ->
                    Commit(Self, TailCall("parse_flow_def"), retval, definitions)
             [] t = "CONSTRAINT" ->
                    Commit(Self, TailCall("parse_constraint_def"), retval, definitions)
             [] t = "EOF" ->
                    Commit(Self, Callers, None, definitions)
             [] OTHER ->
                    Commit(Parser_next_token(
                               [Self EXCEPT !.errors = Append(errors,
                                   ParseError("Unexpected token", "a definition keyword",
                                              t, current_token))]),
                           Callers, None, definitions)

\* parse_entity_def up to its loop
EntityHead ==
    /\ At("parse_entity_def", "start")
    /\ LET name == expect_token(Self, "ENTITY").current_token.value
       IN  Commit(Run(Self, <<"ENTITY", "IDENTIFIER", "LEFT_BRACE">>),
                  Append(Callers, [Top EXCEPT !.pc = "fields", !.name = name]),
                  retval, definitions)

\* the loop test of parse_entity_def
EntityLoopTest == ~is_current_token(Self, "RIGHT_BRACE") /\ ~is_at_end(Self)

\* the body of the field loop after parse_field_def has returned r.node
AppendField(r) ==
    Commit(r.self,
           Append(Callers,
                  [Top EXCEPT !.item = r.node,
                              !.items = IF Truthy(r.node)
                                        THEN Append(Top.items, r.node)
                                        ELSE Top.items]),
           retval, definitions)

\* parse_entity_def: one iteration of the field loop
EntityField ==
    /\ At("parse_entity_def", "fields")
    /\ EntityLoopTest
    /\ AppendField(parse_field_def(Self))

\* parse_entity_def after its loop
EntityClose ==
    /\ At("parse_entity_def", "fields")
    /\ ~EntityLoopTest
    /\ Commit(expect_token(Self, "RIGHT_BRACE"), Callers, EntityDef(Top.name, Top.items),
              definitions)

\* parse_rule_def up to the call of parse_action_list
RuleHead ==
    /\ At("parse_rule_def", "start")
    /\ LET name == expect_token(Self, "RULE").current_token.value
       IN  Commit(Run(Self, <<"RULE", "IDENTIFIER", "COLON", "IF", "parse_condition",
                              "THEN">>),
                  Call([Top EXCEPT !.name = name], "ret", "parse_action_list"),
                  retval, definitions)

\* parse_rule_def: parse_action_list has returned
RuleReturn ==
    /\ At("parse_rule_def", "ret")
    /\ Commit(Self, Callers, RuleDef(Top.name, Expression, retval.items), definitions)

\* parse_flow_def up to the call of parse_action_list
FlowHead ==
    /\ At("parse_flow_def", "start")
    /\ LET name == expect_token(Self, "FLOW").current_token.value
       IN  Commit(Run(Self, <<"FLOW", "IDENTIFIER", "LEFT_BRACE">>),
                  Call([Top EXCEPT !.name = name], "ret", "parse_action_list"),
                  retval, definitions)

\* parse_flow_def: parse_action_list has returned
FlowClose ==
    /\ At("parse_flow_def", "ret")
    /\ Commit(expect_token(Self, "RIGHT_BRACE"), Callers, FlowDef(Top.name, retval.items),
              definitions)

parse_constraint_def ==
    /\ At("parse_constraint_def", "start")
    /\ LET name == expect_token(Self, "CONSTRAINT").current_token.value
       IN  Commit(Run(Self, <<"CONSTRAINT", "IDENTIFIER", "COLON", "parse_condition">>),
                  Callers, ConstraintDef(name, Expression), definitions)

\* parse_action_list: the call of parse_action for the first action
ActionListStart ==
    /\ At("parse_action_list", "start")
    /\ Commit(Self, Call(Top, "first", "parse_action"), retval, definitions)

\* parse_action_list: the first parse_action has returned
ActionListFirst ==
    /\ At("parse_action_list", "first")
    /\ Commit(Self,
              Append(Callers,
                     [Top EXCEPT !.pc = "loop", !.item = retval,
                                 !.items = IF Truthy(retval) THEN <<retval>> ELSE <<>>]),
              retval, definitions)

\* parse_action_list: the loop test holds, the comma is consumed, parse_action is called
ActionListComma ==
    /\ At("parse_action_list", "loop")
    /\ is_current_token(Self, "COMMA")
    /\ Commit(Parser_next_token(Self), Call(Top, "next", "parse_action"), retval,
              definitions)

\* parse_action_list: the loop test fails, the list is returned
ActionListReturn ==
    /\ At("parse_action_list", "loop")
    /\ ~is_current_token(Self, "COMMA")
    /\ Commit(Self, Callers, List(Top.items), definitions)

\* parse_action_list: parse_action has returned inside the loop
ActionListNext ==
    /\ At("parse_action_list", "next")
    /\ IF Truthy(retval)
       THEN Commit(Self,
                   Append(Callers,
                          [Top EXCEPT !.pc = "loop", !.item = retval,
                                      !.items = Append(Top.items, retval)]),
                   retval, definitions)
       ELSE Commit(Self, Callers, List(Top.items), definitions)

\* `return self.parse_predicate()`
ReturnNode(r) == Commit(r.self, Callers, r.node, definitions)

\* parse_action after the identifier is consumed: a predicate call or the
\* placeholder action
AfterIdentifier(p) ==
    IF p.raised = "none" /\ is_current_token(p, "LEFT_PAREN")
    THEN ReturnNode(parse_predicate(p))
    ELSE Commit(p, Callers, Action, definitions)

\* parse_action on an identifier
ActionIdentifier ==
    /\ At("parse_action", "start")
    /\ is_current_token(Self, "IDENTIFIER")
    /\ AfterIdentifier(Parser_next_token(Self))

\* parse_action on 'if', up to the call of parse_action_list for the then-branch
ActionIf ==
    /\ At("parse_action", "start")
    /\ is_current_token(Self, "IF")
    /\ Commit(Run(Parser_next_token(Self), <<"parse_condition", "THEN">>),
              Call(Top, "then", "parse_action_list"), retval, definitions)

\* parse_action: the then-branch has returned
ActionThen ==
    /\ At("parse_action", "then")
    /\ IF is_current_token(Self, "ELSE")
       THEN Commit(Parser_next_token(Self),
                   Call([Top EXCEPT !.items = retval.items], "else", "parse_action_list"),
                   retval, definitions)
       ELSE Commit(Self, Callers, Action, definitions)

\* parse_action: the else-branch has returned
ActionElse ==
    /\ At("parse_action", "else")
    /\ Commit(Self, Callers, Action, definitions)

\* parse_action on 'halt'
ActionHalt ==
    /\ At("parse_action", "start")
    /\ is_current_token(Self, "HALT")
    /\ Commit(Parser_next_token(Self), Callers, Action, definitions)

\* parse_action on any other token
ActionNone ==
    /\ At("parse_action", "start")
    /\ ~is_current_token(Self, "IDENTIFIER")
    /\ ~is_current_token(Self, "IF")
    /\ ~is_current_token(Self, "HALT")
    /\ Commit(Self, Callers, None, definitions)

NextParser ==
    \/ ParserInit
    \/ ProgramLoop
    \/ ProgramReturn
    \/ ProgramAppend
    \/ parse_definition
    \/ EntityHead
    \/ EntityField
    \/ EntityClose
    \/ RuleHead
    \/ RuleReturn
    \/ FlowHead
    \/ FlowClose
    \/ parse_constraint_def
    \/ ActionListStart
    \/ ActionListFirst
    \/ ActionListComma
    \/ ActionListReturn
    \/ ActionListNext
    \/ ActionIdentifier
    \/ ActionIf
    \/ ActionThen
    \/ ActionElse
    \/ ActionHalt
    \/ ActionNone

SpecParser == InitParser /\ [][NextParser]_vars

----------------------------------------------------------------------------
(* Properties of parse_program and of the lexer *)

Finished == status \in {"returned", "raised"}

DefinitionStart == {"ENTITY", "RULE", "FLOW", "CONSTRAINT"}

\* C1: parse_program returns a Program to its caller for every input text: no
\* exception escapes it, diagnostics or not.
C1_ParseProgramReturns == ~(status = "raised" /\ exc.from = "parse_program")

\* a step in which expect_token recorded its diagnostic and signalled failure
ExpectTokenFailed ==
    /\ Len(errors') = Len(errors) + 1
    /\ errors'[Len(errors')].message.text = "Expected"

\* C2: when expect_token fails inside parse_definition, parse_program catches the
\* failure, skips to the next ENTITY, RULE, FLOW, CONSTRAINT or EOF token and goes
\* on with its loop: the parse is not aborted.
C2_RecoversAtDefinitionStart ==
    [][ExpectTokenFailed =>
          /\ status' = "running"
          /\ current_token'.token_type \in DefinitionStart \cup {"EOF"}]_vars

\* a malformed rule (its name is missing) immediately followed by a valid flow, one
\* space between the lexemes
MalformedRuleThenFlow == {Source(<<RuleNoName, FlowHalt>>, FALSE)}

\* C3: for one malformed rule followed by one valid flow, parse_program records
\* exactly one diagnostic and returns a Program whose only definition is the FlowDef.
C3_MalformedRuleThenFlow ==
    lexer.input \in MalformedRuleThenFlow =>
        /\ status # "raised"
        /\ status = "returned" =>
              /\ Len(errors) = 1
              /\ Len(retval.definitions) = 1
              /\ retval.definitions[1].kind = "FlowDef"

\* the parser is about to run one iteration of the field loop of parse_entity_def
\* or of the comma loop of parse_action_list
InLoop(fn, pc, test) == At(fn, pc) /\ test

\* C4: every iteration of a parser loop consumes at least one token or leaves the
\* loop (stated for the loops whose iteration is one step: the field loop of
\* parse_entity_def and the comma loop of parse_action_list).
C4_LoopIterationsProgress ==
    [][/\ InLoop("parse_entity_def", "fields", EntityLoopTest) =>
            \/ lexer'.read_position > lexer.read_position
            \/ ~InLoop("parse_entity_def", "fields", EntityLoopTest)'
       /\ InLoop("parse_action_list", "loop", is_current_token(Self, "COMMA")) =>
            \/ lexer'.read_position > lexer.read_position
            \/ ~InLoop("parse_action_list", "loop", is_current_token(Self, "COMMA"))'
      ]_vars

\* number of EOF tokens in a token list
RECURSIVE CountEOF(_)
CountEOF(ts) ==
    IF ts = <<>> THEN 0
    ELSE (IF Head(ts).token_type = "EOF" THEN 1 ELSE 0) + CountEOF(Tail(ts))

\* C5: tokenize_all returns for every input, and the list it returns ends with EOF,
\* which occurs in it exactly once.
C5_TokenizeAllEndsWithOneEOF ==
    /\ status # "raised"
    /\ status = "returned" =>
          /\ tokens # <<>>
          /\ tokens[Len(tokens)].token_type = "EOF"
          /\ CountEOF(tokens) = 1

\* C6: every call of next_token returns one token and leaves read_position greater
\* than it found it.
C6_NextTokenReturnsAndAdvances ==
    [][/\ Len(tokens') = Len(tokens) + 1
       /\ lexer'.read_position > lexer.read_position]_vars

TokenTypes ==
    {"ENTITY", "RULE", "FLOW", "CONSTRAINT", "IF", "THEN", "ELSE", "LOOP", "BREAK",
     "HALT", "AND", "OR", "IDENTIFIER", "NUMBER", "COLON", "COMMA", "DOT", "LEFT_BRACE",
     "RIGHT_BRACE", "LEFT_PAREN", "RIGHT_PAREN", "EQUAL", "NOT_EQUAL", "GREATER", "LESS",
     "GREATER_EQUAL", "LESS_EQUAL", "ASSIGNMENT", "ILLEGAL", "EOF"}

\* C7: in every state of the lexer a call of next_token completes and returns a
\* token; it never raises.
C7_NextTokenNeverRaises ==
    status = "running" =>
        /\ ~next_token(lexer).raised
        /\ next_token(lexer).token.token_type \in TokenTypes

\* the entity definitions of the catalogue that match
\* EntityDef := 'entity' IDENT '{' IDENT* '}'
EntityFragments == {Entity2, Entity0}

\* the fields the grammar gives an entity fragment: the identifiers between the braces
FieldsOf(e) == [i \in 1..(Len(e) - 4) |-> FieldDef(TextValue(e[i + 3]))]

\* C8: a source text that is one well-formed entity definition parses to a Program
\* with exactly that EntityDef, its name and fields in source order, and no
\* diagnostic.
C8_EntityParsed ==
    \A e \in EntityFragments, t \in BOOLEAN :
        lexer.input = Source(<<e>>, t) =>
            /\ status # "raised"
            /\ status = "returned" =>
                  /\ errors = <<>>
                  /\ retval.definitions = <<EntityDef(TextValue(e[2]), FieldsOf(e))>>

\* definitions that are well formed by the grammar: an entity, a rule with a
\* comparison and a predicate call, a flow, a constraint with a comparison
WellFormedFragments == {Entity2, RuleCompare, FlowHalt, ConstraintCompare}

KindOf(fragment) ==
    CASE fragment[1] = KwEntity -> "EntityDef"
      [] fragment[1] = KwRule -> "RuleDef"
      [] fragment[1] = KwFlow -> "FlowDef"
      [] fragment[1] = KwConstraint -> "ConstraintDef"

\* C9: a source made of well-formed definitions parses to a Program with one node
\* per definition, of the matching kind and in source order, and no diagnostic.
C9_WellFormedProgramParsed ==
    \A n \in 1..MaxDefs :
        \A fs \in [1..n -> WellFormedFragments] :
            lexer.input = Source(fs, FALSE) =>
                /\ status # "raised"
                /\ status = "returned" =>
                      /\ errors = <<>>
                      /\ Len(retval.definitions) = n
                      /\ \A i \in 1..n : retval.definitions[i].kind = KindOf(fs[i])

\* the token types the lexer yields for a lexer state onwards, up to EOF
RECURSIVE TokenTypesFrom(_)
TokenTypesFrom(lx) ==
    LET r == next_token(lx)
    IN  IF r.raised THEN <<"RAISED">>
        ELSE IF r.token.token_type = "EOF" THEN <<"EOF">>
        ELSE <<r.token.token_type>> \o TokenTypesFrom(r.lexer)

\* the grammar of the language, as a recogniser: for a list ts of token types and
\* an index i, the indexes just after each way to derive the nonterminal from i
Ty(ts, i) == IF i <= Len(ts) THEN ts[i] ELSE "NONE"

IsTerm(ts, i) == Ty(ts, i) \in {"IDENTIFIER", "NUMBER"}

IsComparison(ts, i) ==
    /\ IsTerm(ts, i)
    /\ Ty(ts, i + 1) \in {"EQUAL", "NOT_EQUAL", "GREATER", "LESS", "GREATER_EQUAL",
                          "LESS_EQUAL"}
    /\ IsTerm(ts, i + 2)

RECURSIVE EndsCondition(_, _)
EndsCondition(ts, i) ==
    IF IsComparison(ts, i)
    THEN {i + 3} \cup (IF Ty(ts, i + 3) \in {"AND", "OR"}
                       THEN EndsCondition(ts, i + 4)
                       ELSE {})
    ELSE {}

\* after a term of an argument list
RECURSIVE EndsMoreArguments(_, _)
EndsMoreArguments(ts, i) ==
    IF Ty(ts, i) = "RIGHT_PAREN" THEN {i + 1}
    ELSE IF Ty(ts, i) = "COMMA" /\ IsTerm(ts, i + 1) THEN EndsMoreArguments(ts, i + 2)
    ELSE {}

\* after the '(' of a predicate call
EndsArguments(ts, i) ==
    IF Ty(ts, i) = "RIGHT_PAREN" THEN {i + 1}
    ELSE IF IsTerm(ts, i) THEN EndsMoreArguments(ts, i + 1)
    ELSE {}

RECURSIVE EndsAction(_, _), EndsActionList(_, _)
EndsActionList(ts, i) ==
    UNION {{j} \cup (IF Ty(ts, j) = "COMMA" THEN EndsActionList(ts, j + 1) ELSE {}) :
             j \in EndsAction(ts, i)}

EndsAction(ts, i) ==
    CASE Ty(ts, i) = "HALT" -> {i + 1}
      [] Ty(ts, i) = "IDENTIFIER" ->
            (IF Ty(ts, i + 1) = "ASSIGNMENT" /\ IsTerm(ts, i + 2) THEN {i + 3} ELSE {})
            \cup (IF Ty(ts, i + 1) = "LEFT_PAREN" THEN EndsArguments(ts, i + 2) ELSE {})
      [] Ty(ts, i) = "IF" ->
            UNION {UNION {{a} \cup (IF Ty(ts, a) = "ELSE"
                                    THEN EndsActionList(ts, a + 1)
                                    ELSE {}) :
                            a \in EndsActionList(ts, c + 1)} :
                     c \in {c \in EndsCondition(ts, i + 1) : Ty(ts, c) = "THEN"}}
      [] OTHER -> {}

\* after the '{' of an entity: IDENT* '}'
RECURSIVE EndsFields(_, _)
EndsFields(ts, i) ==
    IF Ty(ts, i) = "RIGHT_BRACE" THEN {i + 1}
    ELSE IF Ty(ts, i) = "IDENTIFIER" THEN EndsFields(ts, i + 1)
    ELSE {}

EndsDefinition(ts, i) ==
    CASE Ty(ts, i) = "ENTITY" /\ Ty(ts, i + 1) = "IDENTIFIER" /\ Ty(ts, i + 2) = "LEFT_BRACE" ->
            EndsFields(ts, i + 3)
      [] /\ Ty(ts, i) = "RULE" /\ Ty(ts, i + 1) = "IDENTIFIER" /\ Ty(ts, i + 2) = "COLON"
         /\ Ty(ts, i + 3) = "IF" ->
            UNION {EndsActionList(ts, c + 1) :
                     c \in {c \in EndsCondition(ts, i + 4) : Ty(ts, c) = "THEN"}}
      [] Ty(ts, i) = "FLOW" /\ Ty(ts, i + 1) = "IDENTIFIER" /\ Ty(ts, i + 2) = "LEFT_BRACE" ->
            {a + 1 : a \in {a \in EndsActionList(ts, i + 3) : Ty(ts, a) = "RIGHT_BRACE"}}
      [] /\ Ty(ts, i) = "CONSTRAINT" /\ Ty(ts, i + 1) = "IDENTIFIER"
         /\ Ty(ts, i + 2) = "COLON" ->
            EndsCondition(ts, i + 3)
      [] OTHER -> {}

\* Program := Definition*, up to EOF
RECURSIVE DerivesProgram(_, _)
DerivesProgram(ts, i) ==
    \/ Ty(ts, i) = "EOF"
    \/ \E j \in EndsDefinition(ts, i) : DerivesProgram(ts, j)

\* C10: when parse_program finishes with no diagnostic, the token sequence of the
\* input is derivable from the grammar Program := Definition*.
C10_NoDiagnosticMeansWellFormed ==
    (status = "returned" /\ exc.from = "none" /\ stack = <<>> /\ retval.kind = "Program"
        /\ errors = <<>>)
        => DerivesProgram(TokenTypesFrom(NewLexer(lexer.input)), 1)

\* the index, in the token sequence of the input, of the token that a parser whose
\* lexer has read up to read_position holds as current_token (lx is the lexer before
\* token k is read)
RECURSIVE TokenIndex(_, _, _)
TokenIndex(lx, k, read_position) ==
    LET r == next_token(lx)
    IN  IF r.raised \/ r.token.token_type = "EOF" \/ r.lexer.read_position >= read_position
        THEN k
        ELSE TokenIndex(r.lexer, k + 1, read_position)

\* the keyword that begins the grammar production of a definition node
KeywordOf(node) ==
    CASE node.kind = "EntityDef" -> "ENTITY"
      [] node.kind = "RuleDef" -> "RULE"
      [] node.kind = "FlowDef" -> "FLOW"
      [] node.kind = "ConstraintDef" -> "CONSTRAINT"

\* the tokens consumed for the node end a complete production of the node's kind:
\* some production that begins with the node's keyword ends just before the token at
\* index cursor
SpansProduction(ts, node, cursor) ==
    \E i \in 1..Len(ts) : /\ ts[i] = KeywordOf(node)
                          /\ cursor \in EndsDefinition(ts, i)

\* parse_program has just appended the node that parse_definition returned
JustAppended ==
    /\ At("parse_program", "loop")
    /\ Truthy(Top.item)
    /\ definitions # <<>>
    /\ definitions[Len(definitions)] = Top.item

\* C11: no partially-built definition is inserted into Program.definitions: when
\* parse_program appends a node, the parse_*_def call that built it has consumed
\* all tokens of its grammar production (the condition of a rule or constraint
\* included), so the tokens before the lookahead end a complete definition.
C11_OnlyCompleteDefinitionsInserted ==
    JustAppended =>
        SpansProduction(TokenTypesFrom(NewLexer(lexer.input)), Top.item,
                        TokenIndex(NewLexer(lexer.input), 1, lexer.read_position))

\* a step in which parse_definition recorded its diagnostic for a token that does
\* not begin a definition, and parsing goes on
StrayTokenDiagnosed ==
    /\ Len(errors') = Len(errors) + 1
    /\ errors'[Len(errors')].message.text = "Unexpected token"
    /\ status' = "running"

\* C12: a run of top-level tokens that does not begin with a definition keyword
\* yields one diagnostic, not one per token: once the diagnostic is recorded the
\* parser is at the next ENTITY, RULE, FLOW or CONSTRAINT token or at EOF.
C12_OneDiagnosticPerStrayRun ==
    [][StrayTokenDiagnosed =>
          current_token'.token_type \in DefinitionStart \cup {"EOF"}]_vars

\* a step of tokenize_all in which next_token returned an ILLEGAL token
IllegalReturned ==
    /\ Len(tokens') = Len(tokens) + 1
    /\ tokens'[Len(tokens')].token_type = "ILLEGAL"

\* the lexer lx put on the character just after its current one, as one _read_char
\* from the current character leaves it
JustAfter(lx) == _read_char([lx EXCEPT !.read_position = lx.position + 1])

\* what a call of next_token yields, positions aside
Yield(r) == [raised |-> r.raised,
             token_type |-> IF r.raised THEN "NONE" ELSE r.token.token_type,
             value |-> IF r.raised THEN NoValue ELSE r.token.value]

\* C13: when next_token returns ILLEGAL, the payload is the offending character (the
\* first character after the whitespace) and only that character is consumed: the
\* next call yields what lexing from the character just after it yields.
C13_IllegalConsumesOneCharacter ==
    [][IllegalReturned =>
          /\ tokens'[Len(tokens')].value = TextValue(<<_skip_whitespace(lexer).ch>>)
          /\ Yield(next_token(lexer')) =
                Yield(next_token(JustAfter(_skip_whitespace(lexer))))]_vars

OperatorChars == {"=", "!", ">", "<"}

\* the token type the language gives an operator character followed by '='
TwoCharacterType(c) ==
    CASE c = "=" -> "EQUAL"
      [] c = "!" -> "NOT_EQUAL"
      [] c = ">" -> "GREATER_EQUAL"
      [] c = "<" -> "LESS_EQUAL"

\* the token type the language gives an operator character not followed by '='
OneCharacterType(c) ==
    CASE c = "=" -> "ASSIGNMENT"
      [] c = "!" -> "ILLEGAL"
      [] c = ">" -> "GREATER"
      [] c = "<" -> "LESS"

\* the token types of a token list
TypesOf(ts) == [i \in 1..Len(ts) |-> ts[i].token_type]

\* what C14 asks of a call of next_token made with the lexer, whitespace skipped, at
\* lx: tok is the token returned and after the lexer the call leaves
OperatorLexed(lx, tok, after) ==
    IF _peek_char(lx) = "="
    THEN /\ tok.token_type = TwoCharacterType(lx.ch)
         /\ tok.value = TextValue(<<lx.ch, "=">>)
         /\ after.position = lx.position + 2
    ELSE tok.token_type = OneCharacterType(lx.ch)

\* C14: at '=', '!', '>' or '<', next_token returns one token: the two-character
\* operator, both characters consumed, when the next character is '=', and
\* ASSIGNMENT, ILLEGAL, GREATER or LESS otherwise; the text of test 3 lexes to
\* EQUAL, NOT_EQUAL, GREATER, LESS, GREATER_EQUAL, LESS_EQUAL, EOF.
C14_OperatorsLexed ==
    [][/\ (status = "running" /\ _skip_whitespace(lexer).ch \in OperatorChars) =>
            /\ Len(tokens') = Len(tokens) + 1
            /\ OperatorLexed(_skip_whitespace(lexer), tokens'[Len(tokens')], lexer')
       /\ (lexer.input = OperatorsText /\ status' = "returned") =>
            TypesOf(tokens') = <<"EQUAL", "NOT_EQUAL", "GREATER", "LESS",
                                 "GREATER_EQUAL", "LESS_EQUAL", "EOF">>]_vars

\* tokenize_all has returned the tokens of the operators text
C14_OperatorsTextLexed ==
    /\ status = "returned"
    /\ lexer.input = OperatorsText
    /\ Len(tokens) = 7
    /\ tokens[5].token_type = "GREATER_EQUAL"

\* the twelve keywords and their token types
Keywords ==
    {KwEntity, KwRule, KwFlow, KwConstraint, KwIf, KwThen, KwElse, KwLoop, KwBreak,
     KwHalt, KwAnd, KwOr}

KeywordTypes ==
    {"ENTITY", "RULE", "FLOW", "CONSTRAINT", "IF", "THEN", "ELSE", "LOOP", "BREAK",
     "HALT", "AND", "OR"}

\* the end (0-based, exclusive) of the maximal run of letters, digits and underscores
\* of text that begins at the 0-based offset from
RECURSIVE RunEnd(_, _)
RunEnd(text, from) ==
    IF from < Len(text) /\ IsWordChar(text[from + 1]) THEN RunEnd(text, from + 1) ELSE from

MaximalRun(text, from) == SubSeq(text, from + 1, RunEnd(text, from))

\* what C15 asks of the token tok returned for the run of letters, digits and
\* underscores run
IdentifierLexed(run, tok) ==
    /\ tok.token_type \in KeywordTypes \cup {"IDENTIFIER"}
    /\ tok.token_type \in KeywordTypes <=> run \in Keywords
    /\ tok.value = TextValue(run)

\* C15: at a letter or underscore, next_token scans the maximal run of letters,
\* digits and underscores and returns a keyword token if and only if the whole run
\* is one of the twelve keywords, else IDENTIFIER with the whole run as payload (a
\* keyword that is only a prefix of the run gives IDENTIFIER); the text of test 4
\* lexes to the twelve keyword tokens in order.
C15_IdentifiersAndKeywordsLexed ==
    [][/\ (status = "running" /\ is_letter(_skip_whitespace(lexer).ch)) =>
            /\ Len(tokens') = Len(tokens) + 1
            /\ IdentifierLexed(MaximalRun(lexer.input, _skip_whitespace(lexer).position),
                               tokens'[Len(tokens')])
       /\ (lexer.input = KeywordsText /\ status' = "returned") =>
            TypesOf(tokens') = <<"ENTITY", "RULE", "FLOW", "CONSTRAINT", "IF", "THEN",
                                 "ELSE", "LOOP", "BREAK", "HALT", "AND", "OR", "EOF">>]_vars

\* tokenize_all has returned the tokens of the keywords text
C15_KeywordsTextLexed ==
    /\ status = "returned"
    /\ lexer.input = KeywordsText
    /\ Len(tokens) = 13
    /\ tokens[12].value = TextValue(KwOr)

SymbolTypes == {"COLON", "COMMA", "DOT", "LEFT_BRACE", "RIGHT_BRACE", "LEFT_PAREN",
                "RIGHT_PAREN"}

OperatorTypes == {"EQUAL", "NOT_EQUAL", "GREATER", "LESS", "GREATER_EQUAL", "LESS_EQUAL",
                  "ASSIGNMENT"}

\* the payload the language gives a token of each kind
PayloadMatchesKind(tok) ==
    CASE tok.token_type \in KeywordTypes \cup {"IDENTIFIER"} ->
            tok.value.kind = "text" /\ tok.value.text # <<>>
      [] tok.token_type = "NUMBER" -> tok.value.kind = "int"
      [] tok.token_type \in SymbolTypes \cup OperatorTypes \cup {"EOF"} ->
            tok.value = NoValue
      [] tok.token_type = "ILLEGAL" ->
            tok.value.kind = "text" /\ Len(tok.value.text) = 1
      [] OTHER -> FALSE

\* C16: every token the lexer returns has the payload of its kind: text for
\* identifiers and keywords, an integer for NUMBER, none for symbols, operators and
\* EOF, the offending character for ILLEGAL.
C16_PayloadMatchesKind ==
    \A i \in 1..Len(tokens) : PayloadMatchesKind(tokens[i])

\* C17: for any two successive tokens returned by one Lexer, the line, the column
\* and the offset of the later token are each greater than or equal to those of the
\* earlier token.
C17_PositionsNonDecreasing ==
    \A i \in 1..(Len(tokens) - 1) :
        /\ tokens[i + 1].line >= tokens[i].line
        /\ tokens[i + 1].column >= tokens[i].column
        /\ tokens[i + 1].position >= tokens[i].position

\* C17 as amended: the line and the offset of the later token are each greater than
\* or equal to those of the earlier token, and so is the column when the two tokens
\* are reported on the same line.
C17_LineAndOffsetNonDecreasing ==
    \A i \in 1..(Len(tokens) - 1) :
        /\ tokens[i + 1].line >= tokens[i].line
        /\ tokens[i + 1].position >= tokens[i].position
        /\ tokens[i + 1].line = tokens[i].line => tokens[i + 1].column >= tokens[i].column

\* two successive tokens the later of which is on a later line, at a smaller column
C17_ColumnResetByNewline ==
    \E i \in 1..(Len(tokens) - 1) :
        /\ tokens[i + 1].line > tokens[i].line
        /\ tokens[i + 1].column < tokens[i].column
        /\ tokens[i + 1].position > tokens[i].position

\* the number of newline characters among the first n characters of text
RECURSIVE NewlinesBefore(_, _)
NewlinesBefore(text, n) ==
    IF n = 0 \/ text = <<>> THEN 0
    ELSE (IF n <= Len(text) /\ text[n] = "\n" THEN 1 ELSE 0) + NewlinesBefore(text, n - 1)

\* C18: every newline of the input adds exactly one to the line counter and resets
\* the column: the line of every token returned is 1 plus the number of newlines
\* before the token's first character (the first character after the whitespace),
\* and its column is at least 1.
C18_LineCountsNewlines ==
    [][Len(tokens') = Len(tokens) + 1 =>
          /\ tokens'[Len(tokens')].line =
                1 + NewlinesBefore(lexer.input, _skip_whitespace(lexer).position)
          /\ tokens'[Len(tokens')].column >= 1]_vars

\* a step leaves the list of diagnostics as it is or appends one diagnostic to it
ErrorsOnlyAppended ==
    \/ errors' = errors
    \/ /\ Len(errors') = Len(errors) + 1
       /\ SubSeq(errors', 1, Len(errors)) = errors

\* the source offsets of the diagnostics do not decrease along the list
OffsetsNonDecreasing(es) ==
    \A i \in 1..(Len(es) - 1) : es[i + 1].position >= es[i].position

\* C19: diagnostics accumulate in the order encountered: every step of the parser
\* leaves Parser.errors unchanged or appends to it, and the source offsets of the
\* diagnostics are non-decreasing in list order.
C19_DiagnosticsAccumulateInOrder ==
    [][ErrorsOnlyAppended /\ OffsetsNonDecreasing(errors')]_vars

\* two diagnostics have been recorded, the second further into the source
C19_TwoDiagnosticsRecorded ==
    /\ Len(errors) >= 2
    /\ errors[2].position > errors[1].position

\* the index of the last CONSTRAINT token before index k of the token types ts
LastConstraintBefore(ts, k) ==
    CHOOSE i \in 1..(k - 1) :
        /\ ts[i] = "CONSTRAINT"
        /\ \A j \in (i + 1)..(k - 1) : ts[j] # "CONSTRAINT"

\* parse_condition was called at index from of the token types ts, where a Condition
\* begins, and the parser now holds the token at index cursor: the tokens consumed
\* are the whole Condition, and the node returned is a tree, not a bare placeholder
ConditionParsed(ts, from, cursor, node) ==
    IsComparison(ts, from) =>
        /\ cursor \in EndsCondition(ts, from)
        /\ Ty(ts, cursor) \notin {"AND", "OR"}
        /\ node # Expression

\* parse_constraint_def has just returned its node to parse_program
ConstraintReturned ==
    /\ At("parse_program", "ret")
    /\ retval.kind = "ConstraintDef"

\* C20: parse_condition consumes the tokens of a Condition and returns its tree; when
\* it returns, the current token is the first token after the condition (stated for
\* the call made by parse_constraint_def, right after the colon, which returns as
\* soon as parse_condition has).
C20_ConditionConsumed ==
    ConstraintReturned =>
        ConditionParsed(TokenTypesFrom(NewLexer(lexer.input)),
                        LastConstraintBefore(
                            TokenTypesFrom(NewLexer(lexer.input)),
                            TokenIndex(NewLexer(lexer.input), 1, lexer.read_position)) + 3,
                        TokenIndex(NewLexer(lexer.input), 1, lexer.read_position),
                        retval.condition)

\* the token types of the input, and the index in them of the parser's current token
InputTypes == TokenTypesFrom(NewLexer(lexer.input))
Cursor == TokenIndex(NewLexer(lexer.input), 1, lexer.read_position)

\* the number of Terms among the tokens of ts from index i up to, not including, j
RECURSIVE CountTerms(_, _, _)
CountTerms(ts, i, j) ==
    IF i >= j THEN 0 ELSE (IF IsTerm(ts, i) THEN 1 ELSE 0) + CountTerms(ts, i + 1, j)

\* parse_action is about to run on an identifier that '(' and a well-formed argument
\* list follow
AtPredicateCall ==
    /\ At("parse_action", "start")
    /\ Ty(InputTypes, Cursor) = "IDENTIFIER"
    /\ Ty(InputTypes, Cursor + 1) = "LEFT_PAREN"
    /\ EndsArguments(InputTypes, Cursor + 2) # {}

\* C21: on IDENT '(' Term, ..., Term ')' parse_action consumes the whole call and
\* returns a predicate-call node named by the identifier, with one argument per
\* term, and records no diagnostic.
C21_PredicateCallParsed ==
    [][AtPredicateCall =>
          /\ errors' = errors
          /\ status' = "running"
          /\ retval'.kind = "Predicate"
          /\ retval'.name = current_token.value
          /\ Cursor' \in EndsArguments(InputTypes, Cursor + 2)
          /\ Len(retval'.arguments) = CountTerms(InputTypes, Cursor + 2, Cursor')]_vars

\* parse_action is about to run on an identifier that '=' and a Term follow
AtAssignment ==
    /\ At("parse_action", "start")
    /\ Ty(InputTypes, Cursor) = "IDENTIFIER"
    /\ Ty(InputTypes, Cursor + 1) = "ASSIGNMENT"
    /\ IsTerm(InputTypes, Cursor + 2)

\* C22: on IDENT '=' Term parse_action consumes the three tokens and returns an
\* Assignment node for the identifier; the current token is then the first token
\* after the term.
C22_AssignmentParsed ==
    [][AtAssignment =>
          /\ status' = "running"
          /\ retval'.kind = "Assignment"
          /\ Cursor' = Cursor + 3]_vars

\* the text is empty or made of whitespace only
IsBlank(text) == \A i \in 1..Len(text) : isspace(text[i])

\* C24: parsing the empty string, or a text of whitespace only, returns a Program
\* with no definition and records no diagnostic.
C24_BlankInputParsed ==
    IsBlank(lexer.input) =>
        /\ status # "raised"
        /\ errors = <<>>
        /\ definitions = <<>>
        /\ status = "returned" => retval = Program(<<>>)

\* parse_program has returned for a text of whitespace only
C24_WhitespaceParsed ==
    /\ status = "returned"
    /\ lexer.input # <<>>
    /\ IsBlank(lexer.input)
    /\ retval = Program(<<>>)

\* the kinds the parser passes to expect_token
ExpectedKinds ==
    {"ENTITY", "RULE", "FLOW", "CONSTRAINT", "IDENTIFIER", "COLON", "IF", "THEN",
     "LEFT_BRACE", "RIGHT_BRACE", "LEFT_PAREN", "RIGHT_PAREN"}

\* p is the parser before a call of expect_token(kind) whose kind matches and q the
\* parser after it: the lookahead is the next token of the lexer, one call of
\* lexer.next_token further, no diagnostic is appended and the call returns
ExpectMatched(p, q) ==
    /\ q.raised = "none"
    /\ ~next_token(p.lexer).raised
    /\ q.current_token = next_token(p.lexer).token
    /\ q.lexer = next_token(p.lexer).lexer
    /\ q.errors = p.errors

\* the same for a kind that does not match: one diagnostic naming the expected and
\* the actual kind at the current token's line, column and offset, the current
\* token left in place, and failure signalled
ExpectFailed(p, q, kind) ==
    /\ q.raised # "none"
    /\ q.current_token = p.current_token
    /\ q.lexer = p.lexer
    /\ Len(q.errors) = Len(p.errors) + 1
    /\ SubSeq(q.errors, 1, Len(p.errors)) = p.errors
    /\ q.errors[Len(q.errors)] =
          [message |-> [text |-> "Expected", expected |-> kind,
                        got |-> p.current_token.token_type],
           line |-> p.current_token.line, column |-> p.current_token.column,
           position |-> p.current_token.position]

\* C25: expect_token(kind), called in any state of the parser: when the current
\* token's kind is kind it advances the lookahead by one token and appends no
\* diagnostic; otherwise it appends one diagnostic for the current token, leaves
\* the token unconsumed and signals failure.
C25_ExpectTokenContract ==
    status = "running" =>
        \A kind \in ExpectedKinds :
            IF current_token.token_type = kind
            THEN ExpectMatched(Self, expect_token(Self, kind))
            ELSE ExpectFailed(Self, expect_token(Self, kind), kind)

\* the end (0-based, exclusive) of the maximal run of digits of text that begins at
\* the 0-based offset from
RECURSIVE DigitRunEnd(_, _)
DigitRunEnd(text, from) ==
    IF from < Len(text) /\ isdigit(text[from + 1]) THEN DigitRunEnd(text, from + 1) ELSE from

\* the lexer lx put on the character at the 0-based offset of its input
PutAt(lx, offset) == _read_char([lx EXCEPT !.read_position = offset])

\* a step of tokenize_all in which next_token returned an identifier, a keyword or
\* a number
WordReturned ==
    /\ Len(tokens') = Len(tokens) + 1
    /\ tokens'[Len(tokens')].token_type \in KeywordTypes \cup {"IDENTIFIER", "NUMBER"}

\* the end of the run that the token returned from the lexer lx was scanned from
WordEnd(lx, token_type) ==
    IF token_type = "NUMBER"
    THEN DigitRunEnd(lx.input, _skip_whitespace(lx).position)
    ELSE RunEnd(lx.input, _skip_whitespace(lx).position)

\* C26: only whitespace is consumed without being tokenized: after an identifier,
\* keyword or number token the next token is the one that begins at the first
\* non-whitespace character at or after the end of the token's maximal run, so the
\* next call yields what lexing from the end of the run yields.
C26_NoCharacterLostAfterWord ==
    [][WordReturned =>
          Yield(next_token(lexer')) =
            Yield(next_token(PutAt(lexer, WordEnd(lexer, tokens'[Len(tokens')].token_type))))
      ]_vars

\* read_position of a lexer, started at lx, when its call of next_token that returns
\* the first EOF (or raises) is over
RECURSIVE ReadPositionAtEOF(_)
ReadPositionAtEOF(lx) ==
    LET r == next_token(lx)
    IN  IF r.raised \/ r.token.token_type = "EOF"
        THEN r.lexer.read_position
        ELSE ReadPositionAtEOF(r.lexer)

\* C27: the parser stops pulling at the first EOF: once its current token is EOF it
\* never calls lexer.next_token again. Every call of next_token moves read_position
\* on, so the parser's lexer never gets beyond where the call that returned the
\* first EOF left it.
C27_NoPullPastEOF ==
    lexer.read_position <= ReadPositionAtEOF(NewLexer(lexer.input))

\* expect_token has failed with EOF as the current token
C27_FailedAtEOF ==
    /\ status = "raised"
    /\ current_token.token_type = "EOF"
    /\ errors # <<>>
    /\ errors[Len(errors)].message.got = "EOF"

\* C28: the offset of every token returned locates it in the input: for a token
\* other than EOF it is the 0-based index of the first character of the lexeme (the
\* first character after the whitespace), and the offset of EOF is at most the
\* length of the input.
C28_OffsetLocatesToken ==
    [][Len(tokens') = Len(tokens) + 1 =>
          IF tokens'[Len(tokens')].token_type = "EOF"
          THEN tokens'[Len(tokens')].position <= Len(lexer.input)
          ELSE tokens'[Len(tokens')].position = _skip_whitespace(lexer).position]_vars

====
